---- MODULE Spec2Model ----
(***************************************************************************)
(* The population dashboard of src/app.py as a state machine.             *)
(*                                                                         *)
(* The script is re-executed from its first line on every interaction     *)
(* with a widget and on every st.rerun(); one execution is the action     *)
(* RunScript.  The widgets' values, the memo of the three cached data      *)
(* providers and what the last execution rendered are the state.          *)
(*                                                                         *)
(* Python str values are sequences of Unicode code points (the source's   *)
(* literals are Japanese); a pandas DataFrame is the sequence of its rows, *)
(* each a record that carries the row's index label; a Python float that  *)
(* the script computes is the exact quotient it rounds, kept as           *)
(* [num, den, e10] = num / den * 10^e10.  The quotients of this program   *)
(* are of integers below 2^28, far from any rounding tie of a double, so  *)
(* ordering and rounding the exact quotient is ordering and rounding the  *)
(* double.  Integers stay below 2^31 in every operation.                  *)
(*                                                                         *)
(* Column keys: todofuken (prefecture), jinko (population), menseki       *)
(* (area), mitsudo (population density), nenreiso (age band), kouseihi    *)
(* (share), kouseihi_hyoji (share as displayed), nen (year), sojinko      *)
(* (total population).                                                     *)
(***************************************************************************)
EXTENDS Integers, Sequences, FiniteSets, TLC

VARIABLES
  tables,        \* the literal lists the three providers embed
  data_type,     \* the selectbox's value
  view_type,     \* the radio's value
  auto_refresh,  \* the checkbox's value
  pc,            \* "run": an execution of the script is due; "idle": the
                 \* script ended; "sleep": in time.sleep; "rerun": at st.rerun()
  slept,         \* seconds the current execution has blocked in time.sleep
  cache,         \* st.cache_data's memo: provider name -> stored value
  returned,      \* per provider, the value its last call returned
  first_ret,     \* history: per provider, the value its first call returned
  frame,         \* the script's DataFrame variables when it ended
  sel_run,       \* the selection the last execution read
  executed,      \* the branches of the if/elif chain the last execution ran
  error,         \* the exception that ended the last execution, or "none"
  out,           \* what the last execution rendered
  prev,          \* history: selection and output of the execution before
  first_out      \* history: selection -> what was first rendered for it

vars == <<tables, data_type, view_type, auto_refresh, pc, slept,
          cache, returned, first_ret, frame, sel_run, executed, error, out, prev,
          first_out>>

(***************************************************************************)
(* The embedded data.                                                      *)
(***************************************************************************)
\* load_prefecture_data: the 47 prefecture names, Hokkaido .. Okinawa.
prefectures ==
  <<
    <<21271, 28023, 36947>>, <<38738, 26862, 30476>>, <<23721, 25163, 30476>>,
    <<23470, 22478, 30476>>, <<31179, 30000, 30476>>, <<23665, 24418, 30476>>,
    <<31119, 23798, 30476>>, <<33576, 22478, 30476>>, <<26627, 26408, 30476>>,
    <<32676, 39340, 30476>>, <<22524, 29577, 30476>>, <<21315, 33865, 30476>>,
    <<26481, 20140, 37117>>, <<31070, 22856, 24029, 30476>>, <<26032, 28511, 30476>>,
    <<23500, 23665, 30476>>, <<30707, 24029, 30476>>, <<31119, 20117, 30476>>,
    <<23665, 26792, 30476>>, <<38263, 37326, 30476>>, <<23696, 38428, 30476>>,
    <<38745, 23713, 30476>>, <<24859, 30693, 30476>>, <<19977, 37325, 30476>>,
    <<28363, 36032, 30476>>, <<20140, 37117, 24220>>, <<22823, 38442, 24220>>,
    <<20853, 24235, 30476>>, <<22856, 33391, 30476>>, <<21644, 27468, 23665, 30476>>,
    <<40165, 21462, 30476>>, <<23798, 26681, 30476>>, <<23713, 23665, 30476>>,
    <<24195, 23798, 30476>>, <<23665, 21475, 30476>>, <<24499, 23798, 30476>>,
    <<39321, 24029, 30476>>, <<24859, 23195, 30476>>, <<39640, 30693, 30476>>,
    <<31119, 23713, 30476>>, <<20304, 36032, 30476>>, <<38263, 23822, 30476>>,
    <<29066, 26412, 30476>>, <<22823, 20998, 30476>>, <<23470, 23822, 30476>>,
    <<40575, 20816, 23798, 30476>>, <<27798, 32260, 30476>>
  >>

\* load_prefecture_data: populations (the source's local 'populations').
pref_populations ==
  <<
    5224614, 1237984, 1210534, 2301996, 959502, 1068027, 1833152,
    2867009, 1933146, 1939110, 7344765, 6287734, 14047594, 9237337,
    2201272, 1034814, 1132526, 766863, 809974, 2048011, 1978742,
    3633202, 7542415, 1770254, 1413610, 2578087, 8837685, 5465002,
    1324473, 922584, 553407, 671602, 1888432, 2799702, 1342059,
    728633, 950244, 1334841, 691527, 5135214, 811442, 1312317,
    1738301, 1123852, 1069576, 1588256, 1467480
  >>

\* load_prefecture_data: areas in km2.
areas ==
  <<
    83424, 9646, 15275, 7282, 11638, 9323, 13784,
    6097, 6408, 6362, 3798, 5158, 2194, 2416,
    12584, 4248, 4186, 4190, 4465, 13562, 10621,
    7777, 5173, 5774, 4017, 4612, 1905, 8401,
    3691, 4725, 3507, 6708, 7115, 2833, 6112,
    4147, 1877, 5676, 7103, 4988, 832, 1311,
    7409, 6341, 7735, 9187, 2281
  >>

\* load_age_data: the band labels "0-9(sai)" .. "90(sai ijo)".
age_groups ==
  <<
    <<48, 45, 57, 27507>>, <<49, 48, 45, 49, 57, 27507>>,
    <<50, 48, 45, 50, 57, 27507>>, <<51, 48, 45, 51, 57, 27507>>,
    <<52, 48, 45, 52, 57, 27507>>, <<53, 48, 45, 53, 57, 27507>>,
    <<54, 48, 45, 54, 57, 27507>>, <<55, 48, 45, 55, 57, 27507>>,
    <<56, 48, 45, 56, 57, 27507>>, <<57, 48, 27507, 20197, 19978>>
  >>

\* load_age_data: populations per band (the source's local 'populations').
age_populations ==
  <<
    9500000, 11200000, 12800000, 14500000, 16800000,
    17200000, 16500000, 12400000, 8100000, 2500000
  >>

\* load_time_series_data: total population per year.
total_pop ==
  <<
    128057000, 127799000, 127515000, 127298000, 127095000,
    126933000, 126706000, 126443000, 126167000, 125836000,
    125502000, 125124000, 124777000, 124612000
  >>
\* The selectbox options: prefecture population, population by age,
\* population trend, population density.
data_type_options ==
  <<
    <<37117, 36947, 24220, 30476, 21029, 20154, 21475>>,
    <<24180, 40802, 21029, 20154, 21475>>,
    <<20154, 21475, 25512, 31227>>,
    <<20154, 21475, 23494, 24230>>
  >>

\* The literals the if/elif chain compares data_type with.
LitPrefecture == <<37117, 36947, 24220, 30476, 21029, 20154, 21475>>

LitAge == <<24180, 40802, 21029, 20154, 21475>>

LitTrend == <<20154, 21475, 25512, 31227>>

LitDensity == <<20154, 21475, 23494, 24230>>

\* The radio options: detailed (10-year bands), traditional (3 groups).
view_type_options ==
  <<
    <<35443, 32048, 65288, 49, 48, 27507, 38291, 38548, 65289>>,
    <<24467, 26469, 20998, 39006, 65288, 24180, 23569, 12539, 29983, 29987, 24180, 40802, 12539, 39640, 40802, 65289>>
  >>

\* The literals view_type is compared with.
LitTraditional == <<24467, 26469, 20998, 39006, 65288, 24180, 23569, 12539, 29983, 29987, 24180, 40802, 12539, 39640, 40802, 65289>>

LitDetailed == <<35443, 32048, 65288, 49, 48, 27507, 38291, 38548, 65289>>

LitTraditionalRatio == <<24467, 26469, 20998, 39006, 65288, 24180, 23569, 12539, 29983, 29987, 24180, 40802, 12539, 39640, 40802, 65289>>

\* The membership lists of the traditional classification.
YoungBands ==
  <<
    <<48, 45, 57, 27507>>, <<49, 48, 45, 49, 57, 27507>>
  >>

WorkingBands ==
  <<
    <<50, 48, 45, 50, 57, 27507>>, <<51, 48, 45, 51, 57, 27507>>,
    <<52, 48, 45, 52, 57, 27507>>, <<53, 48, 45, 53, 57, 27507>>
  >>

ElderlyBands ==
  <<
    <<54, 48, 45, 54, 57, 27507>>, <<55, 48, 45, 55, 57, 27507>>,
    <<56, 48, 45, 56, 57, 27507>>, <<57, 48, 27507, 20197, 19978>>
  >>

\* The 60+ list of the detailed mode's ageing rate.
ElderlyBands60Plus ==
  <<
    <<54, 48, 45, 54, 57, 27507>>, <<55, 48, 45, 55, 57, 27507>>,
    <<56, 48, 45, 56, 57, 27507>>, <<57, 48, 27507, 20197, 19978>>
  >>

\* The labels of the three aggregated groups: young (0-19), working age
\* (20-59), elderly (60 and over).
TraditionalLabels ==
  <<
    <<24180, 23569, 20154, 21475, 65288, 48, 45, 49, 57, 27507, 65289>>,
    <<29983, 29987, 24180, 40802, 20154, 21475, 65288, 50, 48, 45, 53, 57, 27507, 65289>>,
    <<39640, 40802, 20154, 21475, 65288, 54, 48, 27507, 20197, 19978, 65289>>
  >>

\* The pattern of str.contains: "korei" (elderly).
LitKorei == <<39640, 40802>>

\* The unit suffix of the metrics ("nin", persons) and the percent sign.
Nin == <<20154>>

Percent == <<37>>

(***************************************************************************)
(* Strings.                                                                *)
(***************************************************************************)
Min(a, b) == IF a < b THEN a ELSE b

Range(s) == {s[i] : i \in DOMAIN s}

\* Python's < on str: lexicographic on code points.
StrLess(a, b) ==
  \E k \in 1..(Len(b)) :
    /\ \A i \in 1..(k - 1) : i <= Len(a) /\ a[i] = b[i]
    /\ \/ k = Len(a) + 1
       \/ k <= Len(a) /\ a[k] < b[k]

\* Series.str.contains with a pattern free of metacharacters: substring.
StrContains(s, pat) ==
  \E k \in 0..(Len(s) - Len(pat)) : \A i \in 1..Len(pat) : s[k + i] = pat[i]

\* Series.isin(values).
IsIn(x, values) == \E i \in DOMAIN values : values[i] = x

(***************************************************************************)
(* Numbers and their formatting.                                           *)
(***************************************************************************)
Abs(n) == IF n < 0 THEN 0 - n ELSE n

RECURSIVE Pow10(_)
Pow10(k) == IF k = 0 THEN 1 ELSE 10 * Pow10(k - 1)

\* s[lo] + ... + s[hi], by halves.
RECURSIVE SumRange(_, _, _)
SumRange(s, lo, hi) ==
  IF lo > hi THEN 0
  ELSE IF lo = hi THEN s[lo]
  ELSE LET mid == (lo + hi) \div 2
       IN SumRange(s, lo, mid) + SumRange(s, mid + 1, hi)

SumSeq(s) == SumRange(s, 1, Len(s))

\* The decimal digits of n >= 0, as code points.
RECURSIVE Digits(_)
Digits(n) == IF n < 10 THEN <<48 + n>> ELSE Append(Digits(n \div 10), 48 + (n % 10))

\* The digits with a comma before every group of three, as format(n, ",").
RECURSIVE Grouped(_)
Grouped(n) ==
  IF n < 1000 THEN Digits(n)
  ELSE LET low == n % 1000
       IN Grouped(n \div 1000) \o <<44, 48 + (low \div 100),
                                    48 + ((low \div 10) % 10), 48 + (low % 10)>>

Sign(neg) == IF neg THEN <<45>> ELSE <<>>

\* f"{n:,}" of an int.
FormatComma(n) == Sign(n < 0) \o Grouped(Abs(n))

\* A float: num / den * 10^e10, den > 0.
Quot(n, d) == [num |-> n, den |-> d, e10 |-> 0]

Times100(x) == [x EXCEPT !.e10 = @ + 2]

\* floor(n * 10^k / d) and the remainder, n >= 0, by long division.
RECURSIVE LongDiv(_, _, _)
LongDiv(n, d, k) ==
  IF k = 0 THEN [q |-> n \div d, r |-> n % d]
  ELSE LET p == LongDiv(n, d, k - 1)
       IN [q |-> p.q * 10 + ((p.r * 10) \div d), r |-> (p.r * 10) % d]

\* |x| * 10^k rounded to the nearest integer, ties to even: the rounding of
\* format(x, ".kf") and of numpy.round(x, k).
RoundHalfEvenAbs(x, k) ==
  LET p == LongDiv(Abs(x.num), x.den, x.e10 + k)
  IN IF 2 * p.r > x.den \/ (2 * p.r = x.den /\ p.q % 2 = 1) THEN p.q + 1 ELSE p.q

\* The k decimals of a rounded magnitude m = |x| * 10^k, zero-padded.
RECURSIVE Decimals(_, _)
Decimals(m, k) ==
  IF k = 0 THEN <<>> ELSE Append(Decimals(m \div 10, k - 1), 48 + (m % 10))

\* f"{x:.kf}" of a float.
FormatFixed(x, k) ==
  LET m == RoundHalfEvenAbs(x, k)
  IN Sign(x.num < 0) \o Digits(m \div Pow10(k))
       \o (IF k = 0 THEN <<>> ELSE <<46>> \o Decimals(m % Pow10(k), k))

\* Series.round(1) of a non-negative float: the float nearest to a number
\* of tenths.
Round1(x) == Quot(RoundHalfEvenAbs(x, 1), 10)

\* str() of a float that is a number of tenths: "7.8", "10.0".
StrTenths(x) == Digits(x.num \div 10) \o <<46, 48 + (x.num % 10)>>

\* -1, 0, 1 as a/b is below, equal to, above c/d; all four positive, or a
\* and c zero.  Compares the integer parts, then the remainders' inverses.
RECURSIVE CmpQuot(_, _, _, _)
CmpQuot(a, b, c, d) ==
  LET qa == a \div b
      qc == c \div d
      ra == a % b
      rc == c % d
  IN IF qa < qc THEN -1
     ELSE IF qa > qc THEN 1
     ELSE IF ra = 0 /\ rc = 0 THEN 0
     ELSE IF ra = 0 THEN -1
     ELSE IF rc = 0 THEN 1
     ELSE CmpQuot(d, rc, b, ra)

(***************************************************************************)
(* pandas.                                                                 *)
(***************************************************************************)
\* Whether row a sorts before row b on column col.
Before(col, ascending, a, b) ==
  LET lt(x, y) ==
        CASE col = "mitsudo" ->
               CmpQuot(x.mitsudo.num, x.mitsudo.den, y.mitsudo.num, y.mitsudo.den) < 0
          [] col = "nenreiso" -> StrLess(x.nenreiso, y.nenreiso)
          [] OTHER -> x[col] < y[col]
  IN IF ascending THEN lt(a, b) ELSE lt(b, a)

\* The rows of df in the order of their places: placed holds <<place, row
\* number>> of every row.
Arrange(df, placed) ==
  [p \in 1..Len(df) |-> df[(CHOOSE e \in placed : e[1] = p)[2]]]

\* DataFrame.sort_values(col) and the ranking of nlargest and nsmallest:
\* the rows ordered on col, rows of equal value in their order in df.  Row i
\* comes after the earlier rows it does not sort before and the later rows
\* that sort before it.
SortValues(df, col, ascending) ==
  LET N == Len(df)
      place(i) ==
        Cardinality({j \in 1..(i - 1) : ~Before(col, ascending, df[i], df[j])})
          + Cardinality({j \in (i + 1)..N : Before(col, ascending, df[j], df[i])})
          + 1
  IN Arrange(df, {<<place(i), i>> : i \in 1..N})

\* nlargest mistaken for head: the first n rows as they stand.
NLargestUnranked(df, n, col) == SubSeq(df, 1, Min(n, Len(df)))

\* DataFrame.nlargest(n, col), keep="first": the n rows of largest value in
\* descending order, rows of equal value in their order in df.
NLargest(df, n, col) == SubSeq(SortValues(df, col, FALSE), 1, Min(n, Len(df)))

\* DataFrame.nsmallest(n, col), keep="first".
NSmallest(df, n, col) == SubSeq(SortValues(df, col, TRUE), 1, Min(n, Len(df)))

\* Series.max() and Series.min() of a column's set of values.
MaxOf(values) == CHOOSE m \in values : \A k \in values : k <= m

MinOf(values) == CHOOSE m \in values : \A k \in values : m <= k

\* Series.sum() of the jinko column.
SumJinko(df) == SumSeq([i \in DOMAIN df |-> df[i].jinko])

\* Series.idxmax(): the position of the first row of maximal jinko.
IdxMax(df) ==
  CHOOSE i \in DOMAIN df :
    /\ \A j \in DOMAIN df : df[j].jinko <= df[i].jinko
    /\ \A j \in 1..(i - 1) : df[j].jinko < df[i].jinko

\* df[df["nenreiso"].isin(values)]["jinko"].sum()
SumIsIn(df, values) ==
  SumSeq([i \in DOMAIN df |-> IF IsIn(df[i].nenreiso, values) THEN df[i].jinko ELSE 0])

\* df[df["nenreiso"].str.contains(pat)]["jinko"].sum()
SumContains(df, pat) ==
  SumSeq([i \in DOMAIN df |-> IF StrContains(df[i].nenreiso, pat) THEN df[i].jinko ELSE 0])

\* df[["todofuken", "jinko"]]
NameAndJinko(df) ==
  [i \in DOMAIN df |-> [index |-> df[i].index, todofuken |-> df[i].todofuken,
                        jinko |-> df[i].jinko]]

(***************************************************************************)
(* The data providers.                                                     *)
(***************************************************************************)
FirstYear == 2010

EndYear == 2024

\* list(range(2010, 2024))
years == [i \in 1..(EndYear - FirstYear) |-> FirstYear + i - 1]

\* The lists as the source writes them.
SampleTables ==
  [prefectures |-> prefectures, pref_populations |-> pref_populations,
   areas |-> areas, age_groups |-> age_groups,
   age_populations |-> age_populations, years |-> years,
   total_pop |-> total_pop]

\* The frame load_prefecture_data builds; the density is population / area.
PrefectureFrame(t) ==
  [i \in 1..Len(t.prefectures) |->
     [index |-> i - 1, todofuken |-> t.prefectures[i],
      jinko |-> t.pref_populations[i], menseki |-> t.areas[i],
      mitsudo |-> Quot(t.pref_populations[i], t.areas[i])]]

\* The frame load_age_data builds.
AgeFrame(t) ==
  [i \in 1..Len(t.age_groups) |->
     [index |-> i - 1, nenreiso |-> t.age_groups[i], jinko |-> t.age_populations[i]]]

\* The frame load_time_series_data builds.
TimeFrame(t) ==
  [i \in 1..Len(t.years) |->
     [index |-> i - 1, nen |-> t.years[i], sojinko |-> t.total_pop[i]]]

\* A function decorated with st.cache_data: the first call computes the
\* value and stores it, every later call returns a copy of what is stored.
CachedCall(name, value) == IF name \in DOMAIN cache THEN cache[name] ELSE value

load_prefecture_data == CachedCall("load_prefecture_data", PrefectureFrame(tables))

load_age_data == CachedCall("load_age_data", AgeFrame(tables))

load_time_series_data == CachedCall("load_time_series_data", TimeFrame(tables))

(***************************************************************************)
(* The four views.  Each gives what it renders (out), the DataFrame        *)
(* variables it leaves (frame) and what its provider calls returned.      *)
(***************************************************************************)
TopN == 10

DensityTopN == 20

Metric(label, value) == [label |-> label, value |-> value]

NoOutput == [charts |-> <<>>, metrics |-> <<>>, tables |-> <<>>]

NoCalls == [p \in {} |-> <<>>]

NoFrame == [v \in {} |-> <<>>]

\* if data_type == <prefecture population>: the bubble chart, the summary
\* metrics and the two rankings.
PrefectureView ==
  LET df_pref == load_prefecture_data
      total == SumJinko(df_pref)
      jinko == {df_pref[i].jinko : i \in DOMAIN df_pref}
      top_10 == NameAndJinko(NLargest(df_pref, TopN, "jinko"))
      bottom_10 == NameAndJinko(NSmallest(df_pref, TopN, "jinko"))
  IN [out |->
        [charts |-> <<[fig |-> "fig", kind |-> "scatter", data |-> df_pref,
                       x |-> "todofuken", y |-> "jinko", size |-> "jinko",
                       color |-> "mitsudo"]>>,
         metrics |->
           <<Metric("sojinko", FormatComma(total) \o Nin),
             Metric("saidai jinko", FormatComma(MaxOf(jinko)) \o Nin),
             Metric("saisho jinko", FormatComma(MinOf(jinko)) \o Nin),
             Metric("heikin jinko", FormatFixed(Quot(total, Len(df_pref)), 0) \o Nin)>>,
         tables |-> <<top_10, bottom_10>>],
      frame |-> [df_pref |-> df_pref],
      calls |-> [p \in {"load_prefecture_data"} |-> df_pref]]

\* The copy forgotten: df_display is df_age itself.
CopyAlias(heap, ref) == [heap |-> heap, ref |-> ref]

\* DataFrame.copy(): a new object with the same rows.  The heap is the
\* sequence of the DataFrame objects alive, a reference an index in it.
Copy(heap, ref) == [heap |-> Append(heap, heap[ref]), ref |-> Len(heap) + 1]

\* The aggregation with the elderly list short of its last band.
TraditionalFrameShort(df_age) ==
  LET young == SumIsIn(df_age, YoungBands)
      working == SumIsIn(df_age, WorkingBands)
      elderly == SumIsIn(df_age, SubSeq(ElderlyBands, 1, Len(ElderlyBands) - 1))
      jinko == <<young, working, elderly>>
  IN [i \in 1..3 |-> [index |-> i - 1, nenreiso |-> TraditionalLabels[i],
                      jinko |-> jinko[i]]]

\* The three aggregated groups of the traditional classification.
TraditionalFrame(df_age) ==
  LET young == SumIsIn(df_age, YoungBands)
      working == SumIsIn(df_age, WorkingBands)
      elderly == SumIsIn(df_age, ElderlyBands)
      jinko == <<young, working, elderly>>
  IN [i \in 1..3 |-> [index |-> i - 1, nenreiso |-> TraditionalLabels[i],
                      jinko |-> jinko[i]]]

\* The if/else that binds df_display: the aggregated frame, or a copy of
\* df_age.
BindDisplay(heap, df_age, vt) ==
  IF vt = LitTraditional
  THEN [heap |-> Append(heap, TraditionalFrame(heap[df_age])), ref |-> Len(heap) + 1]
  ELSE Copy(heap, df_age)

\* The share left a fraction of one: the factor 100 forgotten.
ShareOfOne(jinko, total) == Round1(Quot(jinko, total))

\* A row's share of the total in percent, rounded to one decimal.
Share(jinko, total) == Round1(Times100(Quot(jinko, total)))

\* df_display["kouseihi"] = ...; df_display["kouseihi_hyoji"] = ...: the two
\* columns added in place to the object df_display refers to.
AddShareColumns(heap, ref) ==
  LET df == heap[ref]
      total == SumJinko(df)
  IN [heap EXCEPT ![ref] =
        [i \in DOMAIN df |->
           [index |-> df[i].index, nenreiso |-> df[i].nenreiso,
            jinko |-> df[i].jinko, kouseihi |-> Share(df[i].jinko, total),
            kouseihi_hyoji |-> StrTenths(Share(df[i].jinko, total)) \o Percent]]]

\* The pyramid drawn in both modes.
PyramidAlways(vt) == TRUE

\* if view_type == <detailed>: whether the pyramid chart is drawn.
PyramidShown(vt) == vt = LitDetailed

\* The ageing-rate metric: of the group whose label contains "korei" in
\* the traditional mode, of the 60+ bands of df_age otherwise.
ElderlyMetric(df_age, df_display, vt) ==
  LET total == SumJinko(df_display)
  IN IF vt = LitTraditionalRatio
     THEN Metric("koreikaritsu",
                 FormatFixed(Times100(Quot(SumContains(df_display, LitKorei), total)), 1)
                   \o Percent)
     ELSE Metric("koreikaritsu 60 sai ijo",
                 FormatFixed(Times100(Quot(SumIsIn(df_age, ElderlyBands60Plus), total)), 1)
                   \o Percent)

\* elif data_type == <population by age>.
AgeView ==
  LET vt == view_type
      h0 == <<load_age_data>>
      df_age == 1
      bound == BindDisplay(h0, df_age, vt)
      h1 == bound.heap
      df_display == bound.ref
      shown == h1[df_display]
      pie == [fig |-> "fig", kind |-> "pie", data |-> shown, values |-> "jinko",
              names |-> "nenreiso", title |-> vt]
      bar == [fig |-> "fig", kind |-> "bar", data |-> shown, x |-> "nenreiso",
              y |-> "jinko", color |-> "nenreiso", title |-> vt]
      fig_pyramid == [fig |-> "fig_pyramid", kind |-> "bar", orientation |-> "h",
                      data |-> SortValues(h1[df_age], "nenreiso", TRUE),
                      x |-> "jinko", y |-> "nenreiso", color |-> "jinko"]
      max_group == shown[IdxMax(shown)]
      h2 == AddShareColumns(h1, df_display)
  IN [out |->
        [charts |-> <<pie, bar>> \o (IF PyramidShown(vt) THEN <<fig_pyramid>> ELSE <<>>),
         metrics |->
           <<Metric("sojinko", FormatComma(SumJinko(shown)) \o Nin),
             Metric("saidai jinkoso", max_group.nenreiso),
             Metric("caption", FormatComma(max_group.jinko) \o Nin),
             ElderlyMetric(h1[df_age], shown, vt)>>,
         tables |-> <<h2[df_display]>>],
      frame |-> [df_age |-> h2[df_age], df_display |-> h2[df_display]],
      calls |-> [p \in {"load_age_data"} |-> h0[1]]]

\* The change divided by the 13 intervals between the 14 records.
AnnualChangePerInterval(change, df_time) == Quot(change, Len(df_time) - 1)

\* change / len(df_time)
AnnualChange(change, df_time) == Quot(change, Len(df_time))

\* elif data_type == <population trend>.
TrendView ==
  LET df_time == load_time_series_data
      last == df_time[Len(df_time)].sojinko
      first == df_time[1].sojinko
      change == last - first
      annual_change == AnnualChange(change, df_time)
      change_rate == Times100(Quot(change, first))
  IN [out |->
        [charts |-> <<[fig |-> "fig", kind |-> "line", data |-> df_time,
                       x |-> "nen", y |-> "sojinko", markers |-> TRUE]>>,
         metrics |->
           <<Metric("2023 nen jinko", FormatComma(last) \o Nin),
             [label |-> "2010 nen kara no henka", value |-> FormatComma(change) \o Nin,
              delta |-> change],
             Metric("nen heikin henka", FormatFixed(annual_change, 0) \o Nin),
             Metric("henkaritsu", FormatFixed(change_rate, 1) \o Percent)>>,
         tables |-> <<>>],
      frame |-> [df_time |-> df_time],
      calls |-> [p \in {"load_time_series_data"} |-> df_time]]

\* elif data_type == <population density>.
DensityView ==
  LET df_pref == load_prefecture_data
  IN [out |->
        [charts |-> <<[fig |-> "fig", kind |-> "bar", orientation |-> "h",
                       data |-> NLargest(df_pref, DensityTopN, "mitsudo"),
                       x |-> "mitsudo", y |-> "todofuken", color |-> "mitsudo"],
                      [fig |-> "fig2", kind |-> "scatter", data |-> df_pref,
                       x |-> "jinko", y |-> "mitsudo", size |-> "jinko",
                       color |-> "mitsudo"]>>,
         metrics |-> <<>>,
         tables |-> <<>>],
      frame |-> [df_pref |-> df_pref],
      calls |-> [p \in {"load_prefecture_data"} |-> df_pref]]

\* The chain with the trend branch testing the density literal, and so dead.
BranchTrendDead(dt) ==
  IF dt = LitPrefecture THEN <<"prefecture">>
  ELSE IF dt = LitAge THEN <<"age">>
  ELSE IF dt = LitDensity THEN <<"trend">>
  ELSE IF dt = LitDensity THEN <<"density">>
  ELSE <<>>

\* The if/elif chain on data_type: the branches it runs, in order.
Branch(dt) ==
  IF dt = LitPrefecture THEN <<"prefecture">>
  ELSE IF dt = LitAge THEN <<"age">>
  ELSE IF dt = LitTrend THEN <<"trend">>
  ELSE IF dt = LitDensity THEN <<"density">>
  ELSE <<>>

\* The view chosen by the selection the execution before this one read: a
\* widget value that lags one execution behind.
RenderOfLastRun(branch) ==
  LET stale == IF sel_run = <<>> THEN branch
               ELSE IF sel_run[1] = LitPrefecture THEN <<"prefecture">>
               ELSE IF sel_run[1] = LitAge THEN <<"age">>
               ELSE IF sel_run[1] = LitTrend THEN <<"trend">>
               ELSE <<"density">>
  IN IF stale = <<"prefecture">> THEN PrefectureView
     ELSE IF stale = <<"age">> THEN AgeView
     ELSE IF stale = <<"trend">> THEN TrendView
     ELSE IF stale = <<"density">> THEN DensityView
     ELSE [out |-> NoOutput, frame |-> NoFrame, calls |-> NoCalls]

\* What the chain renders: the view of the branch it runs; with no branch
\* nothing but the title and the footer is drawn.
Render(branch) ==
  IF branch = <<"prefecture">> THEN PrefectureView
  ELSE IF branch = <<"age">> THEN AgeView
  ELSE IF branch = <<"trend">> THEN TrendView
  ELSE IF branch = <<"density">> THEN DensityView
  ELSE [out |-> NoOutput, frame |-> NoFrame, calls |-> NoCalls]

\* The chain closed by an else branch that raises.
ChainErrorElseRaise(branch) == IF branch = <<>> THEN "InvalidSelection" ELSE "none"

\* The exception the chain ends the script with: it has no else branch and
\* raises nothing, whatever it ran.
ChainError(branch) == "none"

(***************************************************************************)
(* The script and the user.                                                *)
(***************************************************************************)
SleepSeconds == 30

\* The selection an execution reads: data_type, and view_type where the
\* radio is drawn.
Selection == <<data_type, IF data_type = data_type_options[2] THEN view_type ELSE <<>>>>

\* The checkbox ignored: the script ends whatever its value.
AfterFooterEnds(checked) == "idle"

\* if st.sidebar.checkbox(...): where the script goes after the footer.
AfterFooter(checked) == IF checked THEN "sleep" ELSE "idle"

\* f keeping its entries, with those of g it lacks.
Merge(f, g) ==
  [p \in DOMAIN f \cup DOMAIN g |-> IF p \in DOMAIN f THEN f[p] ELSE g[p]]

\* One execution of the script from its first line to the checkbox.  A
\* widget that an execution does not draw loses its value: the radio is
\* back at its first option when the age branch did not run.
RunScript ==
  /\ pc = "run"
  /\ \E branch \in {Branch(data_type)} :
       \E view \in {Render(branch)}, raised \in {ChainError(branch)} :
         /\ executed' = branch
         /\ error' = raised
         /\ out' = view.out
         /\ frame' = view.frame
         /\ returned' = view.calls
         /\ cache' = Merge(cache, view.calls)
         /\ first_ret' = Merge(first_ret, view.calls)
         /\ first_out' = Merge(first_out, [s \in {Selection} |-> view.out])
         /\ view_type' = IF branch = <<"age">> THEN view_type ELSE view_type_options[1]
         /\ pc' = IF raised # "none" THEN "idle" ELSE AfterFooter(auto_refresh)
  /\ sel_run' = Selection
  /\ prev' = [sel |-> sel_run, out |-> out]
  /\ slept' = 0
  /\ UNCHANGED <<tables, data_type, auto_refresh>>

\* time.sleep(30) returns.
Sleep ==
  /\ pc = "sleep"
  /\ slept' = slept + SleepSeconds
  /\ pc' = "rerun"
  /\ UNCHANGED <<tables, data_type, view_type, auto_refresh, cache,
                 returned, first_ret, frame, sel_run, executed, error, out,
                 prev, first_out>>

\* st.rerun(): the script is executed again from its first line.
Rerun ==
  /\ pc = "rerun"
  /\ pc' = "run"
  /\ UNCHANGED <<tables, data_type, view_type, auto_refresh, slept, cache,
                 returned, first_ret, frame, sel_run, executed, error, out,
                 prev, first_out>>

\* A widget's new value starts an execution when the script has ended; while
\* the script is in time.sleep the value waits for the st.rerun() that follows.
Interact ==
  /\ pc \in {"idle", "sleep"}
  /\ pc' = IF pc = "idle" THEN "run" ELSE pc

\* The user picks another option of the selectbox.
SelectDataType ==
  /\ Interact
  /\ \E d \in Range(data_type_options) : d # data_type /\ data_type' = d
  /\ UNCHANGED <<tables, view_type, auto_refresh, slept, cache, returned,
                 first_ret, frame, sel_run, executed, error, out, prev, first_out>>

\* The user picks the other option of the radio, which the age branch draws.
SelectViewType ==
  /\ Interact
  /\ executed = <<"age">>
  /\ \E v \in Range(view_type_options) : v # view_type /\ view_type' = v
  /\ UNCHANGED <<tables, data_type, auto_refresh, slept, cache, returned,
                 first_ret, frame, sel_run, executed, error, out, prev, first_out>>

\* The user ticks or unticks the auto-refresh checkbox.
ToggleAutoRefresh ==
  /\ Interact
  /\ error = "none"
  /\ auto_refresh' = ~auto_refresh
  /\ UNCHANGED <<tables, data_type, view_type, slept, cache, returned,
                 first_ret, frame, sel_run, executed, error, out, prev, first_out>>

Next ==
  \/ RunScript
  \/ Sleep
  \/ Rerun
  \/ SelectDataType
  \/ SelectViewType
  \/ ToggleAutoRefresh

\* The session's first execution is due: the widgets are at their defaults
\* and nothing is cached.
InitWith(t, dt) ==
  /\ tables = t
  /\ data_type = dt
  /\ view_type = view_type_options[1]
  /\ auto_refresh = FALSE
  /\ pc = "run"
  /\ slept = 0
  /\ cache = NoCalls
  /\ returned = NoCalls
  /\ first_ret = NoCalls
  /\ frame = NoFrame
  /\ sel_run = <<>>
  /\ executed = <<>>
  /\ error = "none"
  /\ out = NoOutput
  /\ prev = [sel |-> <<>>, out |-> NoOutput]
  /\ first_out = [s \in {} |-> NoOutput]

Init == InitWith(SampleTables, data_type_options[1])

Spec == Init /\ [][Next]_vars

(***************************************************************************)
(* Other tables, for what the script computes of any data: the script     *)
(* with its lists replaced.                                                *)
(***************************************************************************)
MaxRotation == 1

\* The sample's age populations moved k bands on.
AgeRotated(k) ==
  [SampleTables EXCEPT
     !.age_populations = [i \in 1..Len(age_populations) |->
                            age_populations[((i - 1 + k) % Len(age_populations)) + 1]]]

\* Every band a different power of two: no two sets of bands sum alike.
AgePowers ==
  [SampleTables EXCEPT
     !.age_populations = [i \in 1..Len(age_populations) |-> 2 ^ (i - 1)]]

\* Three groups of equal population, each a third that does not round.
AgeThirds ==
  [SampleTables EXCEPT
     !.age_populations = [i \in 1..Len(age_populations) |-> IF i <= 2 THEN 2 ELSE 1]]

\* Densities that tie: 5000 twice among the densest, 400 three times
\* at the nineteenth, twentieth and twenty-first place.
PrefTies ==
  [SampleTables EXCEPT
     !.pref_populations = [@ EXCEPT ![1] = 4000, ![2] = 8000, ![45] = 400,
                                    ![3] = 5000, ![6] = 10000],
     !.areas = [@ EXCEPT ![1] = 10, ![2] = 20, ![45] = 1, ![3] = 1, ![6] = 2]]

TableFamily ==
  {SampleTables, AgePowers, AgeThirds, PrefTies} \cup {AgeRotated(k) : k \in 1..MaxRotation}

InitAny == \E t \in TableFamily : InitWith(t, data_type_options[1])

SpecAny == InitAny /\ [][Next]_vars

\* The chain as a function of data_type: the session started with any
\* option, or with a string that is none of them.
OutsideOption == <<20154, 21475>>

InitDispatch ==
  \E d \in Range(data_type_options) \cup {OutsideOption} : InitWith(SampleTables, d)

SpecDispatch == InitDispatch /\ [][Next]_vars

\* The script is a single thread whose blocking calls come back:
\* time.sleep(30) returns and st.rerun() restarts the script.
FairSpec ==
  Spec /\ WF_vars(Sleep) /\ WF_vars(Rerun)

(***************************************************************************)
(* The properties.                                                         *)
(***************************************************************************)
\* An execution of the script has ended.
HasRun == sel_run # <<>>

BranchNames == <<"prefecture", "age", "trend", "density">>

Detailed == view_type_options[1]

Traditional == view_type_options[2]

\* C1: once an execution has ended, exactly one branch of the chain ran in
\* it, the one of the option it read, and what it rendered is what was
\* first rendered for the selection it read, whatever was shown in between.
OneViewPerSelection ==
  HasRun =>
    /\ Len(executed) = 1
    /\ \E i \in DOMAIN data_type_options :
         sel_run[1] = data_type_options[i] /\ executed = <<BranchNames[i]>>
    /\ out = first_out[sel_run]

\* Every selection has been shown, and the last execution followed a change
\* of selection.
AllViewsShownAfterChange ==
  /\ HasRun
  /\ Cardinality(DOMAIN first_out) = 5
  /\ prev.sel # <<>>
  /\ prev.sel # sel_run
  /\ pc = "idle"

\* C2: in the traditional mode the three groups sum to what the ten bands
\* sum to, and every band of the frame is in exactly one of the three
\* membership lists.
GroupsPartitionBands ==
  (HasRun /\ executed = <<"age">> /\ sel_run[2] = Traditional) =>
    /\ Len(frame.df_display) = 3
    /\ SumJinko(frame.df_display) = SumJinko(frame.df_age)
    /\ \A i \in DOMAIN frame.df_age :
         LET band == frame.df_age[i].nenreiso
         IN Cardinality({l \in {1, 2, 3} :
                           IsIn(band, <<YoungBands, WorkingBands, ElderlyBands>>[l])}) = 1

\* The traditional mode shown for bands that are different powers of two.
TraditionalOfPowersShown ==
  /\ HasRun
  /\ executed = <<"age">>
  /\ sel_run[2] = Traditional
  /\ tables = AgePowers
  /\ SumJinko(frame.df_display) = 1023

\* The script variable that holds what a provider returned.
FrameVar(p) ==
  CASE p = "load_prefecture_data" -> "df_pref"
    [] p = "load_age_data" -> "df_age"
    [] p = "load_time_series_data" -> "df_time"

\* C3: whatever was rendered before, what a provider's call returned is
\* what its first call returned and what the memo holds, and the script's
\* variable still holds it when the script ends: no view changed it.
ProvidersUnchanged ==
  /\ \A p \in DOMAIN cache : cache[p] = first_ret[p]
  /\ \A p \in DOMAIN returned :
       /\ returned[p] = first_ret[p]
       /\ frame[FrameVar(p)] = returned[p]

\* The detailed age view rendered again, its table carrying the two share
\* columns, after every provider has been called.
SharesAddedTwice ==
  /\ HasRun
  /\ sel_run = <<data_type_options[2], Detailed>>
  /\ prev.sel = sel_run
  /\ DOMAIN cache = {"load_prefecture_data", "load_age_data", "load_time_series_data"}
  /\ "kouseihi_hyoji" \in DOMAIN out.tables[1][1]
  /\ "kouseihi_hyoji" \notin DOMAIN frame.df_age[1]

\* C4: an execution that read the selection the execution before it read
\* rendered the same charts, tables and metrics.
SameSelectionSameOutput ==
  (HasRun /\ prev.sel = sel_run) => prev.out = out

\* The traditional age view rendered twice in succession.
TraditionalRenderedTwice ==
  /\ HasRun
  /\ prev.sel = sel_run
  /\ sel_run = <<data_type_options[2], Traditional>>
  /\ Len(out.tables[1]) = 3

\* C5: the trend view of the 14 records of 2010..2023 shows the change
\* -3,445,000 (124612000 - 128057000), the yearly change -246071 (the change
\* over the 14 records) and the rate -2.7%.
TrendMetrics ==
  (HasRun /\ executed = <<"trend">>) =>
    /\ Len(frame.df_time) = 14
    /\ \A i \in 1..14 : frame.df_time[i].nen = 2009 + i
    /\ frame.df_time[1].sojinko = 128057000
    /\ frame.df_time[14].sojinko = 124612000
    /\ out.metrics[2].delta = 0 - 3445000
    /\ out.metrics[2].value = <<45, 51, 44, 52, 52, 53, 44, 48, 48, 48>> \o Nin
    /\ out.metrics[3].value = <<45, 50, 52, 54, 48, 55, 49>> \o Nin
    /\ out.metrics[4].value = <<45, 50, 46, 55, 37>>

\* The trend view rendered.
TrendRendered ==
  /\ HasRun
  /\ executed = <<"trend">>
  /\ Len(out.metrics) = 4
  /\ out.charts[1].kind = "line"

\* Row a's density against row b's: -1, 0, 1.
CmpDensity(a, b) == CmpQuot(a.jinko, a.menseki, b.jinko, b.menseki)

Tokyo == <<26481, 20140, 37117>>

\* C6: the density ranking holds 20 of the 47 rows (all of fewer than 20),
\* each a row of the frame, in descending order of population / area; no
\* row left out is denser than a row in it; rows of equal density are in
\* source order, in the ranking and across its end; and on the sample data
\* Tokyo (14047594 on 2194) is first.
DensityRanking ==
  (HasRun /\ executed = <<"density">>) =>
    LET bar == out.charts[1].data
        df == frame.df_pref
        inBar == {bar[i].index : i \in DOMAIN bar}
    IN /\ Len(df) = 47
       /\ Len(bar) = 20
       /\ Cardinality(inBar) = 20
       /\ \A i \in DOMAIN bar : bar[i] = df[bar[i].index + 1]
       /\ \A i \in DOMAIN bar : df[bar[i].index + 1].mitsudo
                                  = Quot(bar[i].jinko, bar[i].menseki)
       /\ \A i, j \in DOMAIN bar :
            i < j => \/ CmpDensity(bar[i], bar[j]) > 0
                     \/ CmpDensity(bar[i], bar[j]) = 0 /\ bar[i].index < bar[j].index
       /\ \A k \in DOMAIN df :
            df[k].index \notin inBar =>
              \A i \in DOMAIN bar :
                \/ CmpDensity(df[k], bar[i]) < 0
                \/ CmpDensity(df[k], bar[i]) = 0 /\ bar[i].index < df[k].index
       /\ tables = SampleTables =>
            /\ bar[1].todofuken = Tokyo
            /\ bar[1].jinko = 14047594
            /\ bar[1].menseki = 2194

\* The ranking of a table with ties: two rows of equal density in it, and a
\* row of the density of its last row left out.
DensityTiesRanked ==
  /\ HasRun
  /\ executed = <<"density">>
  /\ LET bar == out.charts[1].data
         df == frame.df_pref
     IN /\ \E i \in DOMAIN bar : i < 20 /\ CmpDensity(bar[i], bar[i + 1]) = 0
        /\ \E k \in DOMAIN df :
             /\ \A i \in DOMAIN bar : bar[i].index # df[k].index
             /\ CmpDensity(df[k], bar[20]) = 0

\* The sum of the share column, in tenths of a percent.
ShareSum(df) == SumSeq([i \in DOMAIN df |-> df[i].kouseihi.num])

\* C7: in the age view the share column has 10 rows in the detailed mode
\* and 3 in the traditional mode, every share is its row's population /
\* total x 100 to the nearest tenth, and the column sums to 100.0 within 0.1
\* per row.
SharesSumToHundred ==
  (HasRun /\ executed = <<"age">>) =>
    LET df == out.tables[1]
        total == SumJinko(df)
    IN /\ Len(df) = IF sel_run[2] = Traditional THEN 3 ELSE 10
       /\ \A i \in DOMAIN df :
            /\ df[i].kouseihi.den = 10
            /\ df[i].kouseihi.e10 = 0
            /\ df[i].kouseihi.num \in {LongDiv(df[i].jinko, total, 3).q,
                                       LongDiv(df[i].jinko, total, 3).q + 1}
       /\ ShareSum(df) - 1000 <= Len(df)
       /\ 1000 - ShareSum(df) <= Len(df)

\* The traditional mode of three equal groups: 33.3% each, 99.9% in all.
SharesOfThirdsShown ==
  /\ HasRun
  /\ executed = <<"age">>
  /\ sel_run[2] = Traditional
  /\ ShareSum(out.tables[1]) = 999
  /\ out.tables[1][1].kouseihi_hyoji = <<51, 51, 46, 51, 37>>

\* C8: an execution that finds the checkbox ticked has rendered its view
\* and goes to sleep, one that finds it unticked ends; the sleep is left
\* only by its return after 30 seconds, which is followed only by the
\* rerun; a sleeping script is always executed again; an ended script is
\* executed again only when the user changes a widget; and the script is
\* never ended with the checkbox ticked.
AutoRefreshLoop ==
  /\ [][pc = "run" /\ pc' # "run" =>
          /\ Len(executed') = 1
          /\ out' # NoOutput
          /\ pc' = IF auto_refresh THEN "sleep" ELSE "idle"]_vars
  /\ [][pc = "sleep" /\ pc' # "sleep" =>
          pc' = "rerun" /\ slept' = SleepSeconds /\ SleepSeconds = 30]_vars
  /\ [][pc = "rerun" /\ pc' # "rerun" => pc' = "run" /\ out' = out]_vars
  /\ [][pc = "idle" /\ pc' # "idle" =>
          /\ pc' = "run"
          /\ <<data_type, view_type, auto_refresh>>' # <<data_type, view_type, auto_refresh>>]_vars
  /\ [](pc = "idle" => ~auto_refresh)
  /\ (pc = "sleep") ~> (pc = "run" /\ slept = SleepSeconds)

\* The loop has gone round: the script sleeps again in an execution that
\* the rerun after a sleep started.
SleepsAgainAfterRerun ==
  /\ pc = "sleep"
  /\ auto_refresh
  /\ prev.sel = sel_run
  /\ prev.out = out
  /\ slept = 0

\* The chart named fig_pyramid is among the charts rendered.
HasPyramid == \E i \in DOMAIN out.charts : out.charts[i].fig = "fig_pyramid"

\* C9: the pyramid chart is rendered exactly when the execution read the
\* age option and the detailed mode, whatever was read before; it then
\* holds the 10 bands, each once, in ascending order of their labels.
PyramidOnlyDetailed ==
  HasRun =>
    /\ HasPyramid <=> sel_run = <<data_type_options[2], Detailed>>
    /\ HasPyramid =>
         LET data == out.charts[3].data
         IN /\ Len(data) = 10
            /\ {data[i] : i \in DOMAIN data} = Range(frame.df_age)
            /\ \A i \in 1..9 : StrLess(data[i].nenreiso, data[i + 1].nenreiso)

\* The detailed mode rendered right after the traditional mode.
PyramidAfterTraditional ==
  /\ HasRun
  /\ HasPyramid
  /\ prev.sel = <<data_type_options[2], Traditional>>
  /\ Len(prev.out.charts) = 2

\* The execution read a data_type that is none of the options.
OutsideSelection == HasRun /\ sel_run[1] \notin Range(data_type_options)

====
